---- MODULE Spec2Model ----
(***************************************************************************)
(* Round-robin tournament workspace: fixture generation (circle method),   *)
(* result entry and the derived standings table, modelled from             *)
(* src/components/TournamentWorkspace.tsx, src/types.ts and the app shell. *)
(*                                                                         *)
(* Representation notes                                                    *)
(*  - An optional field (TypeScript `x?: T`) is a sequence: <<>> when it   *)
(*    is undefined and <<v>> when it holds v.                              *)
(*  - A match id `M-R${r+1}-${m}-${Date.now()}` is the triple              *)
(*    <<r+1, m, t>>; the template is injective on such triples.            *)
(*  - Overs are kept in tenths (19.4 is 194); true overs are kept in       *)
(*    balls, i.e. sixths of an over (19.4 is 118).                         *)
(*  - A net run rate is an exact fraction [num, den] with den > 0.         *)
(*  - The active tab is not modelled: every tab can be selected at any     *)
(*    time and the buttons a tab offers are guarded here by the same       *)
(*    conditions the render functions use.                                 *)
(***************************************************************************)
EXTENDS Integers, Sequences, FiniteSets, TLC

VARIABLES
    tournament,       \* the Tournament aggregate handed to the workspace
    activeView,       \* App.activeView: "MAIN" or "WORKSPACE"
    table,            \* the memoised standings of the mounted workspace
    securityInput,    \* text typed in the reset dialog
    confirmingAction, \* the open confirmation dialog, or NoAction
    loForm,           \* the scorecard form
    alertMsg,         \* the alert raised by the last handler, or NoAlert
    editingTeam       \* the team loaded in the edit dialog, or None

vars ==
    <<tournament, activeView, table, securityInput, confirmingAction, loForm, alertMsg,
      editingTeam>>

----------------------------------------------------------------------------
(* Bounds of the explored inputs *)

\* teams of a tournament whose schedule is generated (SpecSchedule)
MaxRoster == 5
\* teams of a tournament that is also scored (Spec)
MaxTeams == 3
\* venues of a tournament
MaxVenues == 2
\* the venue draws of one generation repeat with this period
RandPeriod == 2
\* distinct readings of Date.now()
MaxClock == 2
\* matches that may be COMPLETED at the same time (Spec)
MaxScored == 1
\* matches of a stored tournament handed to the standings (SpecStandings)
SnapMatches == 2
\* penalty records of a stored tournament (SpecStandings)
MaxPenalties == 2
\* team slots of a create form whose names are typed (SpecNames)
MaxNamed == 3
\* matches of a stored tournament with scorecards (SpecLedger)
LedgerMatches == 2
\* matches of a stored tournament whose overs limit may be missing (SpecLimit)
LimitMatches == 2
\* matches of a stored tournament into which a result is saved (SpecSave)
SaveMatches == 2
\* matches of a stored tournament whose recent form is read (SpecForm)
MaxFormMatches == 6
\* largest overs figure, in tenths, of the single-match scorecards (SpecLedger)
MaxOversTenths == 17

----------------------------------------------------------------------------
(* Values *)

None == <<>>
Some(x) == <<x>>

BYE == "BYE"
NEUTRAL == "neutral"

TeamIds == <<"team-0", "team-1", "team-2", "team-3", "team-4", "team-5", "team-6", "team-7">>
TeamNames == <<"Thunder Gods 1", "Shadow Strikers 1", "Neon Knights 1", "Cyber Challengers 1",
               "Void Vipers 1", "Pixel Pirates 1", "Binary Batters 1", "Glitch Guardians 1">>
VenueIds == <<"v1", "v2", "v3", "v4">>

TournamentName == "CUP"
SecurityTexts == {"", "CUP", "CUPS"}

NoAlert == "none"
InsufficientTeams == "LOGIC ERROR: Need at least 2 teams!"
ScheduleGenerated == "SCHEDULE GENERATED SUCCESSFULLY!"
ValidationFailed == "SECURITY ALERT: Validation Failed! Type name exactly."

NoAction == [type |-> "none", matchId |-> None]
RegenerateAction == [type |-> "REGENERATE_SCHEDULE", matchId |-> None]
SaveResultAction(id) == [type |-> "SAVE_RESULT", matchId |-> Some(id)]

InitialForm ==
    [t1Runs |-> 0, t1Wickets |-> 0, t1Overs |-> 0,
     t2Runs |-> 0, t2Wickets |-> 0, t2Overs |-> 0,
     notes |-> "", isDls |-> FALSE, isAbandoned |-> FALSE]

Min(a, b) == IF a < b THEN a ELSE b
Max(a, b) == IF a > b THEN a ELSE b

RECURSIVE SumSeq(_)
SumSeq(s) == IF s = <<>> THEN 0 ELSE Head(s) + SumSeq(Tail(s))

Range(s) == {s[i] : i \in 1..Len(s)}

----------------------------------------------------------------------------
(* Tournament creation (CreateTournamentForm) *)

NewTeam(i) == [id |-> TeamIds[i], name |-> TeamNames[i]]

DefaultConfig ==
    [oversPerMatch |-> "20", pointsForWin |-> 2, pointsForDraw |-> 1, pointsForLoss |-> 0]

\* handleSubmit: the tournament a create form with n team slots and v venues submits
CreatedTournament(n, v) ==
    [name |-> TournamentName,
     status |-> "undefined",
     teams |-> [i \in 1..n |-> NewTeam(i)],
     stadiums |-> [i \in 1..v |-> [id |-> VenueIds[i]]],
     matches |-> <<>>,
     penalties |-> <<>>,
     config |-> DefaultConfig]

\* the names typed into the team name inputs
NameChoices == {TeamNames[1], TeamNames[2], TeamNames[3]}

\* the two checks handleSubmit makes before it builds the tournament:
\* a tournament name and no blank team name
SubmitAccepted(name, names) ==
    /\ name # ""
    /\ \A i \in 1..Len(names) : names[i] # ""

\* handleSubmit on a form whose team slots carry the typed names
SubmittedTournament(names) ==
    [CreatedTournament(Len(names), 0) EXCEPT
        !.teams = [i \in 1..Len(names) |-> [id |-> TeamIds[i], name |-> names[i]]]]

----------------------------------------------------------------------------
(* Fixture generation *)

ByeTeam == [id |-> BYE, name |-> BYE]

\* a rotation that shifts every seat, the first included
RotateAll(pool) ==
    IF Len(pool) < 2 THEN pool
    ELSE <<pool[Len(pool)]>> \o SubSeq(pool, 1, Len(pool) - 1)

\* teamPool.splice(1, 0, teamPool.pop()!)
Rotate(pool) ==
    IF Len(pool) < 2 THEN pool
    ELSE <<pool[1], pool[Len(pool)]>> \o SubSeq(pool, 2, Len(pool) - 1)

\* const teamPool = [...teams]; if odd, push the BYE placeholder
TeamPool(teams) ==
    IF Len(teams) % 2 # 0 THEN Append(teams, ByeTeam) ELSE teams

\* the venue lookup without the `|| 'neutral'` fallback
VenueOfNoFallback(stadiums, idx) ==
    IF idx + 1 \in 1..Len(stadiums) THEN stadiums[idx + 1].id ELSE "undefined"

\* tournament.stadiums[Math.floor(Math.random() * tournament.stadiums.length)]
\* followed by `venue?.id || 'neutral'`; idx is the floored product
VenueOf(stadiums, idx) ==
    IF idx + 1 \in 1..Len(stadiums) THEN stadiums[idx + 1].id ELSE NEUTRAL

\* the values Math.floor(Math.random() * len) can take
RandomIndexes(len) == 0..Max(len - 1, 0)

\* a match numbered with the zero-based loop index
NewMatchRoundZero(r, m, t1, t2, venueId, t) ==
    [id |-> <<r + 1, m, t>>,
     round |-> r,
     team1Id |-> t1.id,
     team2Id |-> t2.id,
     venueId |-> venueId,
     status |-> "NOT_STARTED",
     resultType |-> "undefined",
     t1Runs |-> None, t1Wickets |-> None, t1Overs |-> None,
     t2Runs |-> None, t2Wickets |-> None, t2Overs |-> None,
     notes |-> None, isDlsApplied |-> None]

\* a fixture that is born completed as a tie
NewMatchCompleted(r, m, t1, t2, venueId, t) ==
    [id |-> <<r + 1, m, t>>,
     round |-> r + 1,
     team1Id |-> t1.id,
     team2Id |-> t2.id,
     venueId |-> venueId,
     status |-> "COMPLETED",
     resultType |-> "TIE",
     t1Runs |-> None, t1Wickets |-> None, t1Overs |-> None,
     t2Runs |-> None, t2Wickets |-> None, t2Overs |-> None,
     notes |-> None, isDlsApplied |-> None]

\* the object literal pushed onto matches
NewMatch(r, m, t1, t2, venueId, t) ==
    [id |-> <<r + 1, m, t>>,
     round |-> r + 1,
     team1Id |-> t1.id,
     team2Id |-> t2.id,
     venueId |-> venueId,
     status |-> "NOT_STARTED",
     resultType |-> "undefined",
     t1Runs |-> None, t1Wickets |-> None, t1Overs |-> None,
     t2Runs |-> None, t2Wickets |-> None, t2Overs |-> None,
     notes |-> None, isDlsApplied |-> None]

\* a pairing that seats each position against its neighbour
OpponentSeatAdjacent(pool, m) == m + 2

\* teamPool[teamPool.length - 1 - m], as a 1-based position
OpponentSeat(pool, m) == Len(pool) - m

\* a bye test that looks at the first seat only
PlayableFirstSeat(t1, t2) == t1.id # BYE

\* if (t1.id !== 'BYE' && t2.id !== 'BYE')
Playable(t1, t2) == t1.id # BYE /\ t2.id # BYE

\* the two nested loops of handleGenerateSchedule: r < numRounds with
\* numRounds = length - 1, m < matchesPerRound with matchesPerRound = length / 2;
\* rnd[k] is the venue draw of the k-th call of Math.random (the draws repeat
\* with period RandPeriod) and t the reading of Date.now()
RECURSIVE GenLoop(_, _, _, _, _, _, _)
GenLoop(pool, r, m, acc, stadiums, rnd, t) ==
    IF r >= Len(pool) - 1 THEN acc
    ELSE IF 2 * m >= Len(pool)
         THEN GenLoop(Rotate(pool), r + 1, 0, acc, stadiums, rnd, t)
         ELSE LET t1 == pool[m + 1]
                  t2 == pool[OpponentSeat(pool, m)]
                  draw == rnd[(Len(acc) % RandPeriod) + 1]
              IN  IF Playable(t1, t2)
                  THEN GenLoop(pool, r, m + 1,
                               Append(acc, NewMatch(r, m, t1, t2, VenueOf(stadiums, draw), t)),
                               stadiums, rnd, t)
                  ELSE GenLoop(pool, r, m + 1, acc, stadiums, rnd, t)

GenerateMatches(teams, stadiums, rnd, t) ==
    GenLoop(TeamPool(teams), 0, 0, <<>>, stadiums, rnd, t)

----------------------------------------------------------------------------
(* Standings and net run rate *)

\* a conversion that takes the fractional digit as it is
toTrueOversUncapped(overs) == 6 * (overs \div 10) + (overs % 10)

\* toTrueOvers: overs in tenths (integer part and one ball digit) to balls;
\* Math.round recovers the ball digit of a one-decimal value
toTrueOvers(overs) ==
    LET integerPart == overs \div 10
        balls == overs % 10
        validBalls == Min(balls, 6)
    IN  6 * integerPart + validBalls

\* parseFloat on the overs-per-match strings of the model: None is NaN
ParseFloat(s) ==
    CASE s = "20" -> Some(20)
      [] s = "2" -> Some(2)
      [] s = "1" -> Some(1)
      [] s = "0" -> Some(0)
      [] OTHER -> None

\* const maxO = parseFloat(tournament.config.oversPerMatch) || 0, in balls
MaxO(config) ==
    LET parsed == ParseFloat(config.oversPerMatch)
    IN  IF parsed = None \/ parsed = Some(0) THEN 0 ELSE 6 * parsed[1]

\* x ?? 0 on an optional number
OrZero(opt) == IF opt = None THEN 0 ELSE opt[1]

\* a result chain that reads T1_WIN as a win whatever the seat
FormCodeSeatBlind(m, isT1) ==
    LET res == m.resultType
    IN  IF res = "T1_WIN" THEN "W"
        ELSE IF res = "TIE" THEN "T"
        ELSE IF res = "NO_RESULT" \/ res = "ABANDONED" THEN "NR"
        ELSE "L"

\* the branch of the result chain a match takes for the team in seat isT1
FormCode(m, isT1) ==
    LET res == m.resultType
    IN  IF (isT1 /\ res = "T1_WIN") \/ (~isT1 /\ res = "T2_WIN") THEN "W"
        ELSE IF res = "TIE" THEN "T"
        ELSE IF res = "NO_RESULT" \/ res = "ABANDONED" THEN "NR"
        ELSE "L"

\* a guard that looks at the run totals only
CountsForNrrAnyResult(m) ==
    /\ m.t1Runs # None
    /\ m.t2Runs # None

\* the guard of the NRR accumulation
CountsForNrr(m) ==
    /\ m.resultType # "ABANDONED"
    /\ m.resultType # "NO_RESULT"
    /\ m.t1Runs # None
    /\ m.t2Runs # None

\* overs credited for the team's own innings (line 174 reads t1Overs in both seats)
OversFacedOf(m, isT1) == IF isT1 THEN OrZero(m.t1Overs) ELSE OrZero(m.t1Overs)

\* overs credited for the opponent's innings
OversBowledOf(m, isT1) == IF isT1 THEN OrZero(m.t2Overs) ELSE OrZero(m.t1Overs)

\* an innings credited with the overs recorded for it, all out or not
CreditedOversAsRecorded(wickets, overs, maxO) == toTrueOvers(overs)

\* (w === 10) ? maxO : toTrueOvers(o)
CreditedOvers(wickets, overs, maxO) ==
    IF wickets = 10 THEN maxO ELSE toTrueOvers(overs)

ZeroStats ==
    [mp |-> 0, mw |-> 0, ml |-> 0, mt |-> 0, nr |-> 0, pts |-> 0,
     totalRunsScored |-> 0, totalTrueOversFaced |-> 0,
     totalRunsConceded |-> 0, totalTrueOversBowled |-> 0,
     form |-> <<>>]

\* one iteration of matches.forEach for the team
AddMatch(acc, m, team, config) ==
    LET isT1 == m.team1Id = team.id
        maxO == MaxO(config)
        code == FormCode(m, isT1)
        counted ==
            [acc EXCEPT
                !.mp = @ + 1,
                !.mw = IF code = "W" THEN @ + 1 ELSE @,
                !.mt = IF code = "T" THEN @ + 1 ELSE @,
                !.nr = IF code = "NR" THEN @ + 1 ELSE @,
                !.ml = IF code = "L" THEN @ + 1 ELSE @,
                !.pts = @ + (CASE code = "W" -> config.pointsForWin
                               [] code = "L" -> config.pointsForLoss
                               [] OTHER -> config.pointsForDraw),
                !.form = Append(@, code)]
        rS == IF isT1 THEN OrZero(m.t1Runs) ELSE OrZero(m.t2Runs)
        wS == IF isT1 THEN OrZero(m.t1Wickets) ELSE OrZero(m.t2Wickets)
        oS == OversFacedOf(m, isT1)
        rC == IF isT1 THEN OrZero(m.t2Runs) ELSE OrZero(m.t1Runs)
        wC == IF isT1 THEN OrZero(m.t2Wickets) ELSE OrZero(m.t1Wickets)
        oC == OversBowledOf(m, isT1)
    IN  IF CountsForNrr(m)
        THEN [counted EXCEPT
                !.totalRunsScored = @ + rS,
                !.totalRunsConceded = @ + rC,
                !.totalTrueOversFaced = @ + CreditedOvers(wS, oS, maxO),
                !.totalTrueOversBowled = @ + CreditedOvers(wC, oC, maxO)]
        ELSE counted

\* a filter that forgets the lifecycle status
TeamMatchesAnyStatus(matches, team) ==
    SelectSeq(matches, LAMBDA m : m.team1Id = team.id \/ m.team2Id = team.id)

\* tournament.matches.filter(m => (team1 or team2 is the team) && COMPLETED)
TeamMatches(matches, team) ==
    SelectSeq(matches, LAMBDA m :
        (m.team1Id = team.id \/ m.team2Id = team.id) /\ m.status = "COMPLETED")

RECURSIVE Accumulate(_, _, _, _)
Accumulate(acc, ms, team, config) ==
    IF ms = <<>> THEN acc
    ELSE Accumulate(AddMatch(acc, Head(ms), team, config), Tail(ms), team, config)

\* the counters and accumulators of one team when matches.forEach has run
LedgerOf(t, team) ==
    Accumulate(ZeroStats, TeamMatches(t.matches, team), team, t.config)

\* penalties.filter(p => p.teamId === team.id).reduce((s, p) => s + (p.points || 0), 0)
PenPts(penalties, team) ==
    SumSeq([i \in 1..Len(penalties) |->
              IF penalties[i].teamId = team.id THEN penalties[i].points ELSE 0])

\* a rate difference guarded by the overs faced alone
NrrFacedGuardOnly(st) ==
    IF st.totalTrueOversFaced > 0
    THEN IF st.totalTrueOversBowled > 0
         THEN [num |-> 6 * (st.totalRunsScored * st.totalTrueOversBowled
                            - st.totalRunsConceded * st.totalTrueOversFaced),
               den |-> st.totalTrueOversFaced * st.totalTrueOversBowled]
         ELSE [num |-> 6 * st.totalRunsScored, den |-> st.totalTrueOversFaced]
    ELSE [num |-> 0, den |-> 1]

\* the net run rate as an exact fraction; overs totals are in balls
Nrr(st) ==
    IF st.totalTrueOversFaced > 0 /\ st.totalTrueOversBowled > 0
    THEN [num |-> 6 * (st.totalRunsScored * st.totalTrueOversBowled
                       - st.totalRunsConceded * st.totalTrueOversFaced),
          den |-> st.totalTrueOversFaced * st.totalTrueOversBowled]
    ELSE [num |-> 0, den |-> 1]

\* the last five codes, oldest first
RecentFormUnreversed(form) == SubSeq(form, Max(1, Len(form) - 4), Len(form))

\* form.slice(-5).reverse()
RecentForm(form) ==
    LET n == Len(form)
        last == SubSeq(form, Max(1, n - 4), n)
    IN  [i \in 1..Len(last) |-> last[Len(last) + 1 - i]]

\* a deduction without the floor
AdjustedPointsNoFloor(pts, penPts) == pts - penPts

\* pts: Math.max(0, pts - penPts)
AdjustedPoints(pts, penPts) == Max(0, pts - penPts)

\* the record tournament.teams.map builds for one team
StandingOf(t, team) ==
    LET st == LedgerOf(t, team)
    IN  [id |-> team.id, name |-> team.name,
         mp |-> st.mp, mw |-> st.mw, ml |-> st.ml, mt |-> st.mt, nr |-> st.nr,
         pts |-> AdjustedPoints(st.pts, PenPts(t.penalties, team)),
         nrr |-> Nrr(st),
         form |-> RecentForm(st.form)]

Sign(x) == IF x > 0 THEN 1 ELSE IF x < 0 THEN -1 ELSE 0

\* the collation order of the team names of the model
Collation ==
    <<"Binary Batters 1", "Cyber Challengers 1", "Glitch Guardians 1", "Neon Knights 1",
      "Pixel Pirates 1", "Shadow Strikers 1", "Thunder Gods 1", "Void Vipers 1">>

NameRank(name) == CHOOSE i \in 1..Len(Collation) : Collation[i] = name

\* a comparison of names in descending order
LocaleCompareDescending(a, b) == Sign(NameRank(b) - NameRank(a))

\* a.name.localeCompare(b.name)
LocaleCompare(a, b) == Sign(NameRank(a) - NameRank(b))

\* a comparator of three keys: points, NRR, name
CompareStandingsNoWins(a, b) ==
    LET ptsDiff == b.pts - a.pts
        nrrDiff == b.nrr.num * a.nrr.den - a.nrr.num * b.nrr.den
    IN  IF ptsDiff # 0 THEN Sign(ptsDiff)
        ELSE IF nrrDiff # 0 THEN Sign(nrrDiff)
        ELSE LocaleCompare(a.name, b.name)

\* the comparator of data.sort: negative when a is placed before b
CompareStandings(a, b) ==
    LET ptsDiff == b.pts - a.pts
        nrrDiff == b.nrr.num * a.nrr.den - a.nrr.num * b.nrr.den
        mwDiff == b.mw - a.mw
    IN  IF ptsDiff # 0 THEN Sign(ptsDiff)
        ELSE IF nrrDiff # 0 THEN Sign(nrrDiff)
        ELSE IF mwDiff # 0 THEN Sign(mwDiff)
        ELSE LocaleCompare(a.name, b.name)

\* Array.prototype.sort is stable: x goes before the first row it precedes
RECURSIVE InsertSorted(_, _)
InsertSorted(x, sorted) ==
    IF sorted = <<>> THEN <<x>>
    ELSE IF CompareStandings(x, Head(sorted)) < 0 THEN <<x>> \o sorted
    ELSE <<Head(sorted)>> \o InsertSorted(x, Tail(sorted))

RECURSIVE SortStandings(_)
SortStandings(rows) ==
    IF rows = <<>> THEN <<>>
    ELSE InsertSorted(rows[Len(rows)], SortStandings(SubSeq(rows, 1, Len(rows) - 1)))

\* a table that lists only the teams that have played
standingsPlayedOnly(t) ==
    SortStandings(SelectSeq([i \in 1..Len(t.teams) |-> StandingOf(t, t.teams[i])],
                            LAMBDA row : row.mp > 0))

\* the standings memo
standings(t) ==
    SortStandings([i \in 1..Len(t.teams) |-> StandingOf(t, t.teams[i])])

----------------------------------------------------------------------------
(* App shell *)

\* handleEnterWorkspace: the workspace mounts and the standings memo is computed
HandleEnterWorkspace ==
    /\ activeView = "MAIN"
    /\ activeView' = "WORKSPACE"
    /\ table' = standings(tournament)
    /\ UNCHANGED <<editingTeam, tournament, securityInput, confirmingAction, loForm, alertMsg>>

Mounted == activeView = "WORKSPACE"

----------------------------------------------------------------------------
(* Workspace handlers *)

\* a roster test that lets a single team through
TooFewTeamsOffByOne(teams) == Len(teams) < 1

\* if (teams.length < 2)
TooFewTeams(teams) == Len(teams) < 2

handleGenerateSchedule ==
    IF TooFewTeams(tournament.teams)
    THEN /\ alertMsg' = InsufficientTeams
         /\ UNCHANGED <<editingTeam, tournament, activeView, table, securityInput, confirmingAction, loForm>>
    ELSE \E rnd \in [1..RandPeriod -> RandomIndexes(Len(tournament.stadiums))], t \in 1..MaxClock :
         /\ tournament' =
                [tournament EXCEPT
                    !.matches = GenerateMatches(tournament.teams, tournament.stadiums, rnd, t),
                    !.status = "UPCOMING"]
         /\ table' = standings(tournament')
         /\ confirmingAction' = NoAction
         /\ securityInput' = ""
         /\ alertMsg' = ScheduleGenerated
         /\ UNCHANGED <<editingTeam, activeView, loForm>>

\* a reset that does not compare the typed text with the tournament name
handleRegenerateScheduleUnchecked == handleGenerateSchedule

handleRegenerateSchedule ==
    IF securityInput # tournament.name
    THEN /\ alertMsg' = ValidationFailed
         /\ UNCHANGED <<editingTeam, tournament, activeView, table, securityInput, confirmingAction, loForm>>
    ELSE handleGenerateSchedule

\* the form a match row loads into the scorecard dialog: `m.t1Runs || 0`, ...
Prefill(m) ==
    [t1Runs |-> OrZero(m.t1Runs), t1Wickets |-> OrZero(m.t1Wickets), t1Overs |-> OrZero(m.t1Overs),
     t2Runs |-> OrZero(m.t2Runs), t2Wickets |-> OrZero(m.t2Wickets), t2Overs |-> OrZero(m.t2Overs),
     notes |-> IF m.notes = None THEN "" ELSE m.notes[1],
     isDls |-> IF m.isDlsApplied = None THEN FALSE ELSE m.isDlsApplied[1],
     isAbandoned |-> m.resultType = "ABANDONED"]

\* a result read from the run totals alone
FormResultRunsOnly(form) ==
    IF form.t1Runs > form.t2Runs THEN "T1_WIN"
    ELSE IF form.t2Runs > form.t1Runs THEN "T2_WIN"
    ELSE "TIE"

\* the result saveMatchResult derives from the form
FormResult(form) ==
    IF ~form.isAbandoned
    THEN IF form.t1Runs > form.t2Runs THEN "T1_WIN"
         ELSE IF form.t2Runs > form.t1Runs THEN "T2_WIN"
         ELSE "TIE"
    ELSE "ABANDONED"

\* an update that adds the runs and overs of the form to those already stored
UpdatedMatchAccumulating(match, form) ==
    [match EXCEPT
        !.status = "COMPLETED",
        !.resultType = FormResult(form),
        !.t1Runs = Some(OrZero(match.t1Runs) + form.t1Runs),
        !.t1Wickets = Some(form.t1Wickets),
        !.t1Overs = Some(OrZero(match.t1Overs) + form.t1Overs),
        !.t2Runs = Some(OrZero(match.t2Runs) + form.t2Runs),
        !.t2Wickets = Some(form.t2Wickets),
        !.t2Overs = Some(OrZero(match.t2Overs) + form.t2Overs),
        !.notes = Some(form.notes), !.isDlsApplied = Some(form.isDls)]

\* an update that marks the match as in progress
UpdatedMatchInProgress(match, form) ==
    [match EXCEPT
        !.status = "IN_PROGRESS",
        !.resultType = FormResult(form),
        !.t1Runs = Some(form.t1Runs), !.t1Wickets = Some(form.t1Wickets),
        !.t1Overs = Some(form.t1Overs),
        !.t2Runs = Some(form.t2Runs), !.t2Wickets = Some(form.t2Wickets),
        !.t2Overs = Some(form.t2Overs),
        !.notes = Some(form.notes), !.isDlsApplied = Some(form.isDls)]

\* an update that also exchanges the seats of the two teams
UpdatedMatchSeatsSwapped(match, form) ==
    [match EXCEPT
        !.team1Id = match.team2Id, !.team2Id = match.team1Id,
        !.status = "COMPLETED",
        !.resultType = FormResult(form),
        !.t1Runs = Some(form.t1Runs), !.t1Wickets = Some(form.t1Wickets),
        !.t1Overs = Some(form.t1Overs),
        !.t2Runs = Some(form.t2Runs), !.t2Wickets = Some(form.t2Wickets),
        !.t2Overs = Some(form.t2Overs),
        !.notes = Some(form.notes), !.isDlsApplied = Some(form.isDls)]

\* an update that records the result and the scores but leaves the status
UpdatedMatchKeepStatus(match, form) ==
    [match EXCEPT
        !.resultType = FormResult(form),
        !.t1Runs = Some(form.t1Runs), !.t1Wickets = Some(form.t1Wickets),
        !.t1Overs = Some(form.t1Overs),
        !.t2Runs = Some(form.t2Runs), !.t2Wickets = Some(form.t2Wickets),
        !.t2Overs = Some(form.t2Overs),
        !.notes = Some(form.notes), !.isDlsApplied = Some(form.isDls)]

\* { ...match, status: 'COMPLETED', resultType: res, <form fields> }
UpdatedMatch(match, form) ==
    [match EXCEPT
        !.status = "COMPLETED",
        !.resultType = FormResult(form),
        !.t1Runs = Some(form.t1Runs), !.t1Wickets = Some(form.t1Wickets),
        !.t1Overs = Some(form.t1Overs),
        !.t2Runs = Some(form.t2Runs), !.t2Wickets = Some(form.t2Wickets),
        !.t2Overs = Some(form.t2Overs),
        !.notes = Some(form.notes), !.isDlsApplied = Some(form.isDls)]

\* tournament.matches.find(m => m.id === mId): the first match with the id
FindMatch(matches, mId) ==
    LET hits == {i \in 1..Len(matches) : matches[i].id = mId}
    IN  IF hits = {} THEN None
        ELSE Some(matches[CHOOSE i \in hits : \A j \in hits : i <= j])

saveMatchResult ==
    IF confirmingAction.matchId = None
    THEN UNCHANGED vars
    ELSE LET mId == confirmingAction.matchId[1]
             found == FindMatch(tournament.matches, mId)
         IN  /\ tournament' =
                    [tournament EXCEPT
                        !.matches = [i \in 1..Len(@) |->
                                        IF @[i].id = mId /\ found # None
                                        THEN UpdatedMatch(found[1], loForm)
                                        ELSE @[i]],
                        !.status = "ONGOING"]
             /\ table' = standings(tournament')
             /\ confirmingAction' = NoAction
             /\ alertMsg' = NoAlert
             /\ UNCHANGED <<editingTeam, activeView, securityInput, loForm>>

\* updateConfig: the configuration with one key replaced
updateConfig(key, value) ==
    /\ tournament' = [tournament EXCEPT !.config = [@ EXCEPT ![key] = value]]
    /\ table' = standings(tournament')
    /\ alertMsg' = NoAlert
    /\ UNCHANGED <<editingTeam, activeView, securityInput, confirmingAction, loForm>>

\* an overs input that is never disabled
isLockedNever(matches) == FALSE

\* const isLocked = tournament.matches.some(m => m.status === 'COMPLETED')
isLocked(matches) == \E k \in 1..Len(matches) : matches[k].status = "COMPLETED"

\* updateTeam: the team with the id of the edited one is replaced by it
updateTeam(updated) ==
    /\ tournament' =
            [tournament EXCEPT
                !.teams = [i \in 1..Len(@) |-> IF @[i].id = updated.id THEN updated ELSE @[i]]]
    /\ table' = standings(tournament')
    /\ editingTeam' = None
    /\ alertMsg' = NoAlert
    /\ UNCHANGED <<activeView, securityInput, confirmingAction, loForm>>

----------------------------------------------------------------------------
(* User actions: the buttons and inputs that reach the handlers *)

\* EDIT INFO on a team card
OpenEditTeam ==
    /\ Mounted
    /\ confirmingAction = NoAction
    /\ editingTeam = None
    /\ \E i \in 1..Len(tournament.teams) : editingTeam' = Some(tournament.teams[i])
    /\ alertMsg' = NoAlert
    /\ UNCHANGED <<tournament, activeView, table, securityInput, confirmingAction, loForm>>

\* the Team Name input of the edit dialog
TypeTeamName ==
    /\ Mounted
    /\ editingTeam # None
    /\ \E name \in NameChoices \ {editingTeam[1].name} :
          editingTeam' = Some([editingTeam[1] EXCEPT !.name = name])
    /\ alertMsg' = NoAlert
    /\ UNCHANGED <<tournament, activeView, table, securityInput, confirmingAction, loForm>>

\* SAVE in the edit dialog
ClickSaveTeam ==
    /\ Mounted
    /\ editingTeam # None
    /\ updateTeam(editingTeam[1])

\* CANCEL in the edit dialog
CancelEditTeam ==
    /\ Mounted
    /\ editingTeam # None
    /\ editingTeam' = None
    /\ alertMsg' = NoAlert
    /\ UNCHANGED <<tournament, activeView, table, securityInput, confirmingAction, loForm>>

CompletedCount(matches) ==
    Cardinality({i \in 1..Len(matches) : matches[i].status = "COMPLETED"})

\* GENERATE SCHEDULE / INITIALIZE ENGINE / INITIALIZE SCHEDULE HUB: rendered
\* only while the match list is empty
ClickGenerate ==
    /\ Mounted
    /\ confirmingAction = NoAction
    /\ Len(tournament.matches) = 0
    /\ handleGenerateSchedule

\* SYSTEM HARD RESET
OpenReset ==
    /\ Mounted
    /\ confirmingAction = NoAction
    /\ confirmingAction' = RegenerateAction
    /\ alertMsg' = NoAlert
    /\ UNCHANGED <<editingTeam, tournament, activeView, table, securityInput, loForm>>

\* the ENTER NAME input of the reset dialog
TypeSecurityInput ==
    /\ Mounted
    /\ confirmingAction.type = "REGENERATE_SCHEDULE"
    /\ \E text \in SecurityTexts :
        /\ text # securityInput
        /\ securityInput' = text
    /\ alertMsg' = NoAlert
    /\ UNCHANGED <<editingTeam, tournament, activeView, table, confirmingAction, loForm>>

\* AUTH RESET
ClickAuthReset ==
    /\ Mounted
    /\ confirmingAction.type = "REGENERATE_SCHEDULE"
    /\ handleRegenerateSchedule

\* ABORT
AbortReset ==
    /\ Mounted
    /\ confirmingAction.type = "REGENERATE_SCHEDULE"
    /\ confirmingAction' = NoAction
    /\ securityInput' = ""
    /\ alertMsg' = NoAlert
    /\ UNCHANGED <<editingTeam, tournament, activeView, table, loForm>>

\* FILL SCORECARD / EDIT RESULTS on a row of the schedule table
OpenScorecard ==
    /\ Mounted
    /\ confirmingAction = NoAction
    /\ \E i \in 1..Len(tournament.matches) :
        LET m == tournament.matches[i]
        IN  /\ m.status = "COMPLETED" \/ CompletedCount(tournament.matches) < MaxScored
            /\ confirmingAction' = SaveResultAction(m.id)
            /\ loForm' = Prefill(m)
    /\ alertMsg' = NoAlert
    /\ UNCHANGED <<editingTeam, tournament, activeView, table, securityInput>>

\* FILL SCORECARD / EDIT RESULTS on any row of the schedule table
OpenAnyScorecard ==
    /\ Mounted
    /\ confirmingAction = NoAction
    /\ \E i \in 1..Len(tournament.matches) :
        /\ confirmingAction' = SaveResultAction(tournament.matches[i].id)
        /\ loForm' = Prefill(tournament.matches[i])
    /\ alertMsg' = NoAlert
    /\ UNCHANGED <<editingTeam, tournament, activeView, table, securityInput>>

\* the run totals the scorecard inputs are given in Spec
FormRuns == {0, 1}

\* the runs inputs and the MATCH ABANDONED toggle of the scorecard dialog
EditScorecard ==
    /\ Mounted
    /\ confirmingAction.type = "SAVE_RESULT"
    /\ \/ \E v \in FormRuns \ {loForm.t1Runs} : loForm' = [loForm EXCEPT !.t1Runs = v]
       \/ \E v \in FormRuns \ {loForm.t2Runs} : loForm' = [loForm EXCEPT !.t2Runs = v]
       \/ loForm' = [loForm EXCEPT !.isAbandoned = ~@]
    /\ alertMsg' = NoAlert
    /\ UNCHANGED <<editingTeam, tournament, activeView, table, securityInput, confirmingAction>>

\* FINALIZE SCORE
ClickFinalizeScore ==
    /\ Mounted
    /\ confirmingAction.type = "SAVE_RESULT"
    /\ saveMatchResult

\* DISCARD
DiscardScorecard ==
    /\ Mounted
    /\ confirmingAction.type = "SAVE_RESULT"
    /\ confirmingAction' = NoAction
    /\ alertMsg' = NoAlert
    /\ UNCHANGED <<editingTeam, tournament, activeView, table, securityInput, loForm>>

\* the texts typed into the Overs Per Match input
OversTexts == {"20", "2", ""}

\* the Overs Per Match input of the info tab, disabled while isLocked
TypeOversPerMatch ==
    /\ Mounted
    /\ confirmingAction = NoAction
    /\ ~isLocked(tournament.matches)
    /\ \E text \in OversTexts \ {tournament.config.oversPerMatch} :
          updateConfig("oversPerMatch", text)

\* the overs the scorecard inputs are given, in tenths
FormOvers == {0, 10}

\* the overs inputs of the scorecard dialog
EditScorecardOvers ==
    /\ Mounted
    /\ confirmingAction.type = "SAVE_RESULT"
    /\ \/ \E v \in FormOvers \ {loForm.t1Overs} : loForm' = [loForm EXCEPT !.t1Overs = v]
       \/ \E v \in FormOvers \ {loForm.t2Overs} : loForm' = [loForm EXCEPT !.t2Overs = v]
    /\ alertMsg' = NoAlert
    /\ UNCHANGED <<editingTeam, tournament, activeView, table, securityInput, confirmingAction>>

----------------------------------------------------------------------------
(* Specifications *)

InitWorkspaceState ==
    /\ activeView = "MAIN"
    /\ table = <<>>
    /\ securityInput = ""
    /\ confirmingAction = NoAction
    /\ loForm = InitialForm
    /\ alertMsg = NoAlert
    /\ editingTeam = None

\* a tournament fresh from the create form, about to be entered and scored
Init ==
    /\ \E n \in 0..MaxTeams, v \in 0..1 : tournament = CreatedTournament(n, v)
    /\ InitWorkspaceState

Next ==
    \/ HandleEnterWorkspace
    \/ ClickGenerate
    \/ OpenReset
    \/ TypeSecurityInput
    \/ ClickAuthReset
    \/ AbortReset
    \/ OpenScorecard
    \/ EditScorecard
    \/ ClickFinalizeScore
    \/ DiscardScorecard

Spec == Init /\ [][Next]_vars

\* a tournament of two teams whose match is scored with overs, whose overs
\* limit is edited and whose schedule is reset
InitScoring ==
    /\ \E v \in 0..1 : tournament = CreatedTournament(2, v)
    /\ InitWorkspaceState

NextScoring ==
    \/ HandleEnterWorkspace
    \/ ClickGenerate
    \/ OpenReset
    \/ TypeSecurityInput
    \/ ClickAuthReset
    \/ AbortReset
    \/ TypeOversPerMatch
    \/ OpenScorecard
    \/ EditScorecard
    \/ EditScorecardOvers
    \/ ClickFinalizeScore
    \/ DiscardScorecard

SpecScoring == InitScoring /\ [][NextScoring]_vars

\* a tournament of three teams whose matches are all open to scoring and
\* whose schedule is reset
InitLifecycle ==
    /\ tournament = CreatedTournament(3, 0)
    /\ InitWorkspaceState

NextLifecycle ==
    \/ HandleEnterWorkspace
    \/ ClickGenerate
    \/ OpenReset
    \/ TypeSecurityInput
    \/ ClickAuthReset
    \/ AbortReset
    \/ OpenAnyScorecard
    \/ EditScorecard
    \/ ClickFinalizeScore
    \/ DiscardScorecard

SpecLifecycle == InitLifecycle /\ [][NextLifecycle]_vars

\* a tournament fresh from the create form whose schedule is generated and reset
InitSchedule ==
    /\ \E n \in 0..MaxRoster, v \in 0..MaxVenues : tournament = CreatedTournament(n, v)
    /\ InitWorkspaceState

NextSchedule ==
    \/ HandleEnterWorkspace
    \/ ClickGenerate
    \/ OpenReset
    \/ TypeSecurityInput
    \/ ClickAuthReset
    \/ AbortReset

SpecSchedule == InitSchedule /\ [][NextSchedule]_vars

\* a tournament submitted from a create form with typed team names, whose
\* teams are then edited in the workspace
InitNames ==
    /\ \E n \in 2..MaxNamed :
          \E names \in [1..n -> NameChoices \cup {""}] :
              /\ SubmitAccepted(TournamentName, names)
              /\ tournament = SubmittedTournament(names)
    /\ InitWorkspaceState

NextNames ==
    \/ HandleEnterWorkspace
    \/ OpenEditTeam
    \/ TypeTeamName
    \/ ClickSaveTeam
    \/ CancelEditTeam

SpecNames == InitNames /\ [][NextNames]_vars

----------------------------------------------------------------------------
(* Stored tournaments: the inputs of the standings computation *)

Unscored ==
    [t1Runs |-> None, t1Wickets |-> None, t1Overs |-> None,
     t2Runs |-> None, t2Wickets |-> None, t2Overs |-> None]

\* seat 1 made 3 without loss in 1.0 overs, seat 2 was all out for 2 in 0.4 overs
Scored ==
    [t1Runs |-> Some(3), t1Wickets |-> Some(0), t1Overs |-> Some(10),
     t2Runs |-> Some(2), t2Wickets |-> Some(10), t2Overs |-> Some(4)]

ResultTypes == {"T1_WIN", "T2_WIN", "DRAW", "TIE", "NO_RESULT", "ABANDONED"}

\* lifecycle, result and scorecard of a stored match
MatchStates ==
    {[status |-> "COMPLETED", resultType |-> res, score |-> Unscored] :
        res \in ResultTypes \cup {"undefined"}}
    \cup {[status |-> "COMPLETED", resultType |-> "T1_WIN", score |-> Scored],
          [status |-> "NOT_STARTED", resultType |-> "undefined", score |-> Unscored],
          [status |-> "NOT_STARTED", resultType |-> "T1_WIN", score |-> Scored],
          [status |-> "IN_PROGRESS", resultType |-> "T1_WIN", score |-> Scored],
          [status |-> "IN_PROGRESS", resultType |-> "TIE", score |-> Unscored]}

\* the seatings of a stored match, as positions in the team list
Seatings(n) == {p \in {<<1, 2>>, <<2, 1>>, <<2, 3>>} : p[1] <= n /\ p[2] <= n}

\* the k-th stored match of a tournament with the given teams
StoredMatch(k, teams, seating, state) ==
    [id |-> <<1, k, 1>>,
     round |-> 1,
     team1Id |-> teams[seating[1]].id,
     team2Id |-> teams[seating[2]].id,
     venueId |-> NEUTRAL,
     status |-> state.status,
     resultType |-> state.resultType,
     t1Runs |-> state.score.t1Runs, t1Wickets |-> state.score.t1Wickets,
     t1Overs |-> state.score.t1Overs,
     t2Runs |-> state.score.t2Runs, t2Wickets |-> state.score.t2Wickets,
     t2Overs |-> state.score.t2Overs,
     notes |-> None, isDlsApplied |-> None]

AltConfig ==
    [oversPerMatch |-> "2", pointsForWin |-> 3, pointsForDraw |-> 1, pointsForLoss |-> -1]

\* a stored tournament of n teams with the given matches, penalties and configuration
StoredTournament(n, matches, penalties, config) ==
    [CreatedTournament(n, 0) EXCEPT
        !.status = "ONGOING",
        !.matches = matches,
        !.penalties = penalties,
        !.config = config]

\* stored tournaments that vary the matches: seatings, lifecycle, results
ResultSnapshot(n, ms) ==
    StoredTournament(n,
        [k \in 1..Len(ms) |-> StoredMatch(k, CreatedTournament(n, 0).teams, ms[k][1], ms[k][2])],
        <<>>, DefaultConfig)

PenaltyPoints == {1, 5}

PenaltyMatchStates ==
    {[status |-> "COMPLETED", resultType |-> res, score |-> Unscored] :
        res \in {"T1_WIN", "T2_WIN", "TIE"}}

\* stored tournaments that vary the penalties and the points configuration:
\* two teams, every match seating the first against the second
PenaltySnapshot(ms, pens, cfg) ==
    StoredTournament(2,
        [k \in 1..Len(ms) |-> StoredMatch(k, CreatedTournament(2, 0).teams, <<1, 2>>, ms[k])],
        pens, cfg)

\* a stored tournament is loaded and listed; entering it renders its standings
InitStandings ==
    /\ \/ \E n \in 0..MaxTeams, k \in 0..SnapMatches :
            \E ms \in [1..k -> Seatings(n) \X MatchStates] :
                tournament = ResultSnapshot(n, ms)
       \/ \E k \in 0..SnapMatches, j \in 1..MaxPenalties :
            \E ms \in [1..k -> PenaltyMatchStates],
               pens \in [1..j -> [teamId : {TeamIds[1], TeamIds[2]}, points : PenaltyPoints]],
               cfg \in {DefaultConfig, AltConfig} :
                tournament = PenaltySnapshot(ms, pens, cfg)
    /\ InitWorkspaceState

NextStandings == HandleEnterWorkspace

SpecStandings == InitStandings /\ [][NextStandings]_vars

\* the overs figures of the single-match scorecards, in tenths
OversValues == (0..MaxOversTenths) \cup {194, 196, 200}

\* seat 1 made 5 without loss in o1 overs, seat 2 made 3 without loss in o2 overs
OversCard(o1, o2) ==
    [t1Runs |-> Some(5), t1Wickets |-> Some(0), t1Overs |-> Some(o1),
     t2Runs |-> Some(3), t2Wickets |-> Some(0), t2Overs |-> Some(o2)]

\* seat 1 was all out for 4 in 0.5 overs, seat 2 made 5 for 2 in 0.3 overs
FirstAllOut ==
    [t1Runs |-> Some(4), t1Wickets |-> Some(10), t1Overs |-> Some(5),
     t2Runs |-> Some(5), t2Wickets |-> Some(2), t2Overs |-> Some(3)]

\* seat 1 made 6 without loss in 1.0 overs, seat 2 made 1 in no overs at all
NoOversBowled ==
    [t1Runs |-> Some(6), t1Wickets |-> Some(0), t1Overs |-> Some(10),
     t2Runs |-> Some(1), t2Wickets |-> Some(0), t2Overs |-> Some(0)]

\* the run total of seat 1 is missing
FirstRunsAbsent ==
    [t1Runs |-> None, t1Wickets |-> Some(0), t1Overs |-> Some(10),
     t2Runs |-> Some(2), t2Wickets |-> Some(0), t2Overs |-> Some(10)]

ScoreCards == {Scored, FirstAllOut, NoOversBowled, FirstRunsAbsent, Unscored}

\* result and scorecard of a stored COMPLETED match
LedgerStates ==
    {[status |-> "COMPLETED", resultType |-> res, score |-> card] :
        res \in {"T1_WIN", "T2_WIN", "NO_RESULT"}, card \in ScoreCards}
    \cup {[status |-> "COMPLETED", resultType |-> "ABANDONED", score |-> Scored]}

\* stored tournaments of two teams that vary the scorecards
LedgerSnapshot(ms, cfg) ==
    StoredTournament(2,
        [k \in 1..Len(ms) |-> StoredMatch(k, CreatedTournament(2, 0).teams, ms[k][1], ms[k][2])],
        <<>>, cfg)

\* a stored tournament with scorecards is loaded and listed
InitLedger ==
    /\ \/ \E seating \in Seatings(2), o1 \in OversValues, o2 \in OversValues :
            tournament = LedgerSnapshot(
                <<<<seating, [status |-> "COMPLETED", resultType |-> "T1_WIN",
                             score |-> OversCard(o1, o2)]>>>>, DefaultConfig)
       \/ \E k \in 1..LedgerMatches, cfg \in {DefaultConfig, AltConfig} :
            \E ms \in [1..k -> Seatings(2) \X LedgerStates] :
                tournament = LedgerSnapshot(ms, cfg)
    /\ InitWorkspaceState

NextLedger == HandleEnterWorkspace

SpecLedger == InitLedger /\ [][NextLedger]_vars

\* the scorecards of the tournaments whose overs limit may be missing: one
\* without an all-out innings, one with seat 1 all out, one with seat 2 all
\* out, one with an innings of no overs
LimitCards == {OversCard(10, 10), FirstAllOut, Scored, NoOversBowled}

LimitStates ==
    {[status |-> "COMPLETED", resultType |-> res, score |-> card] :
        res \in {"T1_WIN", "T2_WIN"}, card \in LimitCards}

\* the Overs Per Match input left empty, set to 0 and set to 2
LimitConfigs == {[DefaultConfig EXCEPT !.oversPerMatch = text] : text \in {"", "0", "2"}}

\* a stored tournament of two teams with scored matches and an overs limit
\* that may be missing is loaded and listed
InitLimit ==
    /\ \E k \in 1..LimitMatches, cfg \in LimitConfigs :
          \E ms \in [1..k -> Seatings(2) \X LimitStates] :
              tournament = LedgerSnapshot(ms, cfg)
    /\ InitWorkspaceState

NextLimit == HandleEnterWorkspace

SpecLimit == InitLimit /\ [][NextLimit]_vars

\* wickets, overs and DLS flag of the scorecard forms that are saved
FormExtras ==
    {[t1Wickets |-> 0, t1Overs |-> 0, t2Wickets |-> 0, t2Overs |-> 0, isDls |-> FALSE],
     [t1Wickets |-> 0, t1Overs |-> 10, t2Wickets |-> 0, t2Overs |-> 5, isDls |-> FALSE],
     [t1Wickets |-> 10, t1Overs |-> 5, t2Wickets |-> 2, t2Overs |-> 10, isDls |-> TRUE]}

\* the scorecard forms that are saved
SaveForms ==
    {[t1Runs |-> a, t1Wickets |-> x.t1Wickets, t1Overs |-> x.t1Overs,
      t2Runs |-> b, t2Wickets |-> x.t2Wickets, t2Overs |-> x.t2Overs,
      notes |-> "", isDls |-> x.isDls, isAbandoned |-> ab] :
        a \in FormRuns, b \in FormRuns, ab \in BOOLEAN, x \in FormExtras}

\* lifecycle, result and scorecard of the matches a result is saved into
SaveStates ==
    {[status |-> "NOT_STARTED", resultType |-> "undefined", score |-> Unscored],
     [status |-> "COMPLETED", resultType |-> "T1_WIN", score |-> Scored],
     [status |-> "COMPLETED", resultType |-> "ABANDONED", score |-> Scored]}

\* the dialogs the workspace can be in when saveMatchResult is called
SaveDialogs(matches) ==
    {NoAction, RegenerateAction} \cup {SaveResultAction(matches[k].id) : k \in 1..Len(matches)}

\* a mounted workspace of a stored tournament of two teams, with a dialog
\* state and a scorecard form
InitSave ==
    /\ \E k \in 1..SaveMatches :
          \E ms \in [1..k -> Seatings(2) \X SaveStates] :
              tournament = ResultSnapshot(2, ms)
    /\ activeView = "WORKSPACE"
    /\ table = standings(tournament)
    /\ securityInput = ""
    /\ confirmingAction \in SaveDialogs(tournament.matches)
    /\ loForm \in SaveForms
    /\ alertMsg = NoAlert
    /\ editingTeam = None

NextSave == saveMatchResult

SpecSave == InitSave /\ [][NextSave]_vars

\* seating, lifecycle and result of the matches of a long fixture list: a win
\* of the first team over the second, a no-result between them, a tie of the
\* second and the third team, and a match of the first two not yet played
FormStates ==
    {<<<<1, 2>>, [status |-> "COMPLETED", resultType |-> "T1_WIN", score |-> Unscored]>>,
     <<<<2, 1>>, [status |-> "COMPLETED", resultType |-> "NO_RESULT", score |-> Unscored]>>,
     <<<<2, 3>>, [status |-> "COMPLETED", resultType |-> "TIE", score |-> Unscored]>>,
     <<<<1, 2>>, [status |-> "NOT_STARTED", resultType |-> "T2_WIN", score |-> Unscored]>>}

\* a stored tournament of three teams with a long list of matches is loaded
InitForm ==
    /\ \E k \in 0..MaxFormMatches :
          \E ms \in [1..k -> FormStates] : tournament = ResultSnapshot(3, ms)
    /\ InitWorkspaceState

NextForm == HandleEnterWorkspace

SpecForm == InitForm /\ [][NextForm]_vars

----------------------------------------------------------------------------
(* Properties of the generated schedule *)

Teams == tournament.teams
Matches == tournament.matches
N == Len(tournament.teams)
TeamIdSet == {Teams[i].id : i \in 1..N}

\* the schedule on display was produced by handleGenerateSchedule and no
\* result has been saved into it
Generated == tournament.status = "UPCOMING"

\* positions of the matches that seat teams a and b, in either order
Meetings(a, b) ==
    {i \in 1..Len(Matches) : {Matches[i].team1Id, Matches[i].team2Id} = {a, b}}

\* positions of the matches of round rho
RoundMatches(rho) == {i \in 1..Len(Matches) : Matches[i].round = rho}

\* positions of the matches of round rho that seat team a
Appearances(a, rho) ==
    {i \in RoundMatches(rho) : Matches[i].team1Id = a \/ Matches[i].team2Id = a}

\* the number of rounds the circle method plays with N teams
Rounds == IF N % 2 = 0 THEN N - 1 ELSE N

\* C1: a schedule generated for N >= 2 teams with distinct ids has exactly
\* N*(N-1)/2 matches and every unordered pair of distinct teams meets in
\* exactly one of them, whichever seat each team takes.
C1_EveryPairOnce ==
    (Generated /\ N >= 2) =>
        /\ Len(Matches) = (N * (N - 1)) \div 2
        /\ \A a \in TeamIdSet, b \in TeamIdSet :
              a # b => Cardinality(Meetings(a, b)) = 1

C1_Witness ==
    /\ Generated
    /\ N = 5
    /\ Len(Matches) = 10
    /\ Matches[1].team1Id = "team-1"
    /\ Matches[1].team2Id = "team-4"

\* C2: the round numbers of a generated schedule are exactly 1..N-1 for even
\* N and exactly 1..N for odd N: every such round has a match and no match
\* lies outside the range.
C2_RoundsContiguous ==
    (Generated /\ N >= 2) =>
        {Matches[i].round : i \in 1..Len(Matches)} = 1..Rounds

C2_Witness ==
    /\ Generated
    /\ N = 5
    /\ \E i \in 1..Len(Matches) : Matches[i].round = 5
    /\ \E i \in 1..Len(Matches) : Matches[i].round = 1

\* C3: in a generated schedule no team plays twice in a round; for even N
\* every team plays exactly once in every round (N/2 matches per round); for
\* odd N every team is idle in exactly one round and every round has
\* (N-1)/2 matches.
C3_OneMatchPerRound ==
    (Generated /\ N >= 2) =>
        /\ \A a \in TeamIdSet, rho \in 1..Rounds : Cardinality(Appearances(a, rho)) <= 1
        /\ N % 2 = 0 =>
              /\ \A a \in TeamIdSet, rho \in 1..Rounds : Cardinality(Appearances(a, rho)) = 1
              /\ \A rho \in 1..Rounds : 2 * Cardinality(RoundMatches(rho)) = N
        /\ N % 2 # 0 =>
              /\ \A a \in TeamIdSet :
                    Cardinality({rho \in 1..Rounds : Appearances(a, rho) = {}}) = 1
              /\ \A rho \in 1..Rounds : 2 * Cardinality(RoundMatches(rho)) = N - 1

C3_Witness ==
    /\ Generated
    /\ N = 5
    /\ Appearances("team-0", 1) = {}
    /\ Cardinality(RoundMatches(1)) = 2

\* C4: generation attempted with fewer than 2 teams, from a generate button or
\* through a confirmed reset, raises the InsufficientTeams alert and leaves
\* the tournament (matches, status and every other field) as it was.
C4_InsufficientTeamsRefused ==
    [][(/\ N < 2
        /\ \/ ClickGenerate
           \/ (ClickAuthReset /\ securityInput = tournament.name))
       => (tournament' = tournament /\ alertMsg' = InsufficientTeams)]_vars

C4_Witness ==
    /\ N < 2
    /\ confirmingAction = RegenerateAction
    /\ securityInput = tournament.name
    /\ alertMsg = InsufficientTeams
    /\ Matches = <<>>
    /\ tournament.status = "undefined"

\* C5: in every state reached by generating, regenerating and saving results,
\* every match seats two different teams of the tournament (never the BYE
\* placeholder), has round >= 1, and no two matches share an id.
C5_MatchesWellFormed ==
    /\ \A i \in 1..Len(Matches) :
          /\ Matches[i].team1Id # Matches[i].team2Id
          /\ Matches[i].team1Id \in TeamIdSet
          /\ Matches[i].team2Id \in TeamIdSet
          /\ Matches[i].team1Id # BYE
          /\ Matches[i].team2Id # BYE
          /\ Matches[i].round >= 1
    /\ \A i \in 1..Len(Matches), j \in 1..Len(Matches) :
          i # j => Matches[i].id # Matches[j].id

C5_Witness ==
    /\ N = 3
    /\ Len(Matches) = 3
    /\ tournament.status = "ONGOING"
    /\ \E i \in 1..Len(Matches) : Matches[i].status = "COMPLETED"

\* C6: every generated match starts NOT_STARTED with no result and no score
\* fields; its venue is a venue of the tournament when there is one and the
\* 'neutral' sentinel when there is none, and a tournament without venues
\* still gets its full schedule.
C6_FreshMatches ==
    (Generated /\ N >= 2) =>
        /\ \A i \in 1..Len(Matches) :
              /\ Matches[i].status = "NOT_STARTED"
              /\ Matches[i].resultType = "undefined"
              /\ Matches[i].t1Runs = None /\ Matches[i].t1Wickets = None
              /\ Matches[i].t1Overs = None
              /\ Matches[i].t2Runs = None /\ Matches[i].t2Wickets = None
              /\ Matches[i].t2Overs = None
              /\ IF tournament.stadiums # <<>>
                 THEN \E j \in 1..Len(tournament.stadiums) :
                        Matches[i].venueId = tournament.stadiums[j].id
                 ELSE Matches[i].venueId = NEUTRAL
        /\ Len(Matches) > 0

C6_Witness ==
    /\ Generated
    /\ N = 4
    /\ tournament.stadiums = <<>>
    /\ Len(Matches) = 6
    /\ Matches[6].venueId = NEUTRAL

----------------------------------------------------------------------------
(* Properties of the standings *)

Config == tournament.config

\* positions of the COMPLETED matches the team takes part in
Played(id) ==
    {k \in 1..Len(Matches) :
        /\ Matches[k].status = "COMPLETED"
        /\ Matches[k].team1Id = id \/ Matches[k].team2Id = id}

\* ... that its own seat won
Won(id) ==
    {k \in Played(id) :
        \/ Matches[k].team1Id = id /\ Matches[k].resultType = "T1_WIN"
        \/ Matches[k].team2Id = id /\ Matches[k].resultType = "T2_WIN"}

\* ... that the opposite seat won
LostTo(id) ==
    {k \in Played(id) :
        \/ Matches[k].team1Id = id /\ Matches[k].resultType = "T2_WIN"
        \/ Matches[k].team2Id = id /\ Matches[k].resultType = "T1_WIN"}

Tied(id) == {k \in Played(id) : Matches[k].resultType = "TIE"}

Unfinished(id) == {k \in Played(id) : Matches[k].resultType \in {"NO_RESULT", "ABANDONED"}}

\* the match points a standings row stands for, before penalties
MatchPoints(row) ==
    row.mw * Config.pointsForWin + (row.mt + row.nr) * Config.pointsForDraw
        + row.ml * Config.pointsForLoss

\* the penalty records of one team
PenaltiesOf(id) == SelectSeq(tournament.penalties, LAMBDA p : p.teamId = id)

PenaltyTotal(id) ==
    LET own == PenaltiesOf(id) IN SumSeq([i \in 1..Len(own) |-> own[i].points])

\* the tournament with the fields of every match that is not COMPLETED cleared
Scrubbed ==
    [tournament EXCEPT !.matches =
        [k \in 1..Len(@) |->
            IF @[k].status = "COMPLETED" THEN @[k]
            ELSE [@[k] EXCEPT !.resultType = "undefined",
                              !.t1Runs = None, !.t1Wickets = None, !.t1Overs = None,
                              !.t2Runs = None, !.t2Wickets = None, !.t2Overs = None]]]

\* C7: the standings hold exactly one record per team: same length as the
\* team list and every team id exactly once, whatever the matches and
\* penalties.
C7_OneRowPerTeam ==
    Mounted =>
        /\ Len(table) = N
        /\ \A a \in TeamIdSet : Cardinality({i \in 1..Len(table) : table[i].id = a}) = 1

C7_Witness ==
    /\ Mounted
    /\ N = 3
    /\ Len(table) = 3
    /\ table[1].id = "team-2"
    /\ table[3].mp = 0

\* C8: matches that are not COMPLETED never contribute: clearing the result
\* and score fields of every NOT_STARTED or IN_PROGRESS match leaves the
\* standings unchanged, and a team with no COMPLETED match has played, won,
\* lost, tied and no-result 0, points 0 and NRR 0.
C8_OnlyCompletedCount ==
    Mounted =>
        /\ table = standings(Scrubbed)
        /\ \A i \in 1..Len(table) :
              Played(table[i].id) = {} =>
                  /\ table[i].mp = 0 /\ table[i].mw = 0 /\ table[i].ml = 0
                  /\ table[i].mt = 0 /\ table[i].nr = 0
                  /\ table[i].pts = 0
                  /\ table[i].nrr.num = 0

C8_Witness ==
    /\ Mounted
    /\ \E k \in 1..Len(Matches), i \in 1..Len(table) :
          /\ Matches[k].status = "IN_PROGRESS"
          /\ Matches[k].resultType = "T1_WIN"
          /\ Matches[k].t1Runs # None
          /\ table[i].id = Matches[k].team1Id
          /\ table[i].mp = 0
    /\ \E i \in 1..Len(table) : table[i].nrr.num # 0

\* C9: every COMPLETED match of a team increments exactly one counter, by the
\* seat the team occupies: a win of its own seat counts as won, TIE as tied,
\* NO_RESULT or ABANDONED as no-result, a win of the opposite seat as lost;
\* the points before penalties are won*pointsForWin + (tied + no-result)
\* *pointsForDraw + lost*pointsForLoss.
C9_CountersBySeat ==
    Mounted =>
        \A i \in 1..Len(table) :
            LET row == table[i]
                id == row.id
            IN  /\ row.mp = Cardinality(Played(id))
                /\ row.mp = row.mw + row.ml + row.mt + row.nr
                /\ row.mw = Cardinality(Won(id))
                /\ row.mt = Cardinality(Tied(id))
                /\ row.nr = Cardinality(Unfinished(id))
                /\ row.ml >= Cardinality(LostTo(id))
                /\ (\A k \in Played(id) : Matches[k].resultType \in
                        {"T1_WIN", "T2_WIN", "TIE", "NO_RESULT", "ABANDONED"})
                   => row.ml = Cardinality(LostTo(id))
                /\ PenaltiesOf(id) = <<>> => row.pts = Max(0, MatchPoints(row))

C9_Witness ==
    /\ Mounted
    /\ \E i \in 1..Len(table), k \in 1..Len(Matches), j \in 1..Len(Matches) :
          /\ table[i].id = "team-1"
          /\ table[i].mw = 1
          /\ table[i].ml = 1
          /\ table[i].pts = 2
          /\ Matches[k].team2Id = "team-1" /\ Matches[k].resultType = "T2_WIN"
          /\ Matches[k].status = "COMPLETED"
          /\ Matches[j].team1Id = "team-1" /\ Matches[j].resultType = "T2_WIN"
          /\ Matches[j].status = "COMPLETED"

\* C10: the reported points of a team are max(0, match points - sum of the
\* points of the team's penalty records); they are never negative, and the
\* penalties of other teams do not change them.
C10_PenaltyFloor ==
    Mounted =>
        \A i \in 1..Len(table) :
            LET row == table[i]
                alone == standings([tournament EXCEPT !.penalties = PenaltiesOf(row.id)])
            IN  /\ row.pts = Max(0, MatchPoints(row) - PenaltyTotal(row.id))
                /\ row.pts >= 0
                /\ \E j \in 1..Len(alone) : alone[j].id = row.id /\ alone[j].pts = row.pts

C10_Witness ==
    /\ Mounted
    /\ Config = DefaultConfig
    /\ tournament.penalties = <<[teamId |-> "team-0", points |-> 5]>>
    /\ \E i \in 1..Len(table) :
          /\ table[i].id = "team-0"
          /\ table[i].mw = 2
          /\ table[i].pts = 0

----------------------------------------------------------------------------
(* Properties of the net run rate *)

TeamOf(id) == Teams[CHOOSE i \in 1..N : Teams[i].id = id]

\* the accumulators behind the standings row of a team
Ledger(id) == LedgerOf(tournament, TeamOf(id))

\* C11: the NRR of every team is (runs scored / true overs faced) - (runs
\* conceded / true overs bowled) when both overs totals are positive, and 0
\* as soon as one of the two overs totals is 0, whatever the run totals.
C11_NrrFormula ==
    Mounted =>
        \A i \in 1..Len(table) :
            LET st == Ledger(table[i].id)
                faced == st.totalTrueOversFaced
                bowled == st.totalTrueOversBowled
                nrr == table[i].nrr
            IN  /\ nrr.den > 0
                /\ (faced > 0 /\ bowled > 0) =>
                      nrr.num * (faced * bowled) =
                          nrr.den * 6 * (st.totalRunsScored * bowled
                                         - st.totalRunsConceded * faced)
                /\ (faced = 0 \/ bowled = 0) => nrr.num = 0

C11_Witness ==
    /\ Mounted
    /\ \E i \in 1..Len(table) :
          /\ Ledger(table[i].id).totalRunsScored > 0
          /\ Ledger(table[i].id).totalTrueOversFaced > 0
          /\ Ledger(table[i].id).totalTrueOversBowled = 0
          /\ table[i].nrr.num = 0
    /\ \E i \in 1..Len(table) : table[i].nrr.num # 0

\* the COMPLETED matches whose scorecard enters the net run rate: a result
\* other than NO_RESULT and ABANDONED, and both run totals present
Counts(m) ==
    /\ m.status = "COMPLETED"
    /\ m.resultType \notin {"NO_RESULT", "ABANDONED"}
    /\ m.t1Runs # None
    /\ m.t2Runs # None

\* the tournament without the COMPLETED matches that do not count
WithoutUncounted ==
    [tournament EXCEPT !.matches =
        SelectSeq(@, LAMBDA m : m.status = "COMPLETED" => Counts(m))]

NrrTotals(st) ==
    <<st.totalRunsScored, st.totalTrueOversFaced, st.totalRunsConceded, st.totalTrueOversBowled>>

\* C12: a COMPLETED match that is NO_RESULT or ABANDONED, or that lacks a run
\* total of either side, adds nothing to the four NRR accumulators of either
\* team (the accumulators and the NRR are those of the tournament without
\* such matches), yet it counts as played and awards the counter and the
\* points of its result.
C12_UncountedAddNothing ==
    Mounted =>
        \A i \in 1..Len(table) :
            LET row == table[i]
                id == row.id
                rest == standings(WithoutUncounted)
            IN  /\ NrrTotals(Ledger(id)) = NrrTotals(LedgerOf(WithoutUncounted, TeamOf(id)))
                /\ (\A k \in Played(id) : ~Counts(Matches[k])) =>
                      NrrTotals(Ledger(id)) = <<0, 0, 0, 0>>
                /\ \E j \in 1..Len(rest) : rest[j].id = id /\ rest[j].nrr = row.nrr
                /\ row.mp = Cardinality(Played(id))
                /\ row.mw = Cardinality(Won(id))
                /\ row.nr = Cardinality(Unfinished(id))
                /\ row.mp = row.mw + row.ml + row.mt + row.nr
                /\ row.pts = Max(0, MatchPoints(row))

C12_Witness ==
    /\ Mounted
    /\ Len(Matches) = 2
    /\ Matches[1].resultType = "NO_RESULT" /\ Matches[1].t1Runs = Some(3)
    /\ Matches[1].t2Runs = Some(2)
    /\ Matches[2].resultType = "T1_WIN" /\ Matches[2].t1Runs = None
    /\ Matches[2].t2Runs = Some(2)
    /\ Matches[2].team1Id = "team-0"
    /\ \E i \in 1..Len(table) :
          /\ table[i].id = "team-0"
          /\ table[i].mp = 2 /\ table[i].nr = 1 /\ table[i].mw = 1
          /\ table[i].pts = 3
          /\ table[i].nrr.num = 0
          /\ NrrTotals(Ledger("team-0")) = <<0, 0, 0, 0>>

\* positions of the COMPLETED matches of the team that count for its NRR
CountedBy(id) == {k \in Played(id) : Counts(Matches[k])}

\* the innings the team batted in match m, and the innings it bowled in
OwnInnings(m, id) ==
    IF m.team1Id = id
    THEN [runs |-> OrZero(m.t1Runs), wickets |-> OrZero(m.t1Wickets), overs |-> OrZero(m.t1Overs)]
    ELSE [runs |-> OrZero(m.t2Runs), wickets |-> OrZero(m.t2Wickets), overs |-> OrZero(m.t2Overs)]

OppInnings(m, id) ==
    IF m.team1Id = id
    THEN [runs |-> OrZero(m.t2Runs), wickets |-> OrZero(m.t2Wickets), overs |-> OrZero(m.t2Overs)]
    ELSE [runs |-> OrZero(m.t1Runs), wickets |-> OrZero(m.t1Wickets), overs |-> OrZero(m.t1Overs)]

\* the true overs, in balls, an innings stands for
OversOfInnings(inn) ==
    IF inn.wickets = 10 THEN MaxO(Config) ELSE toTrueOvers(inn.overs)

\* the sum of F over the matches of the team that count
TotalOver(id, F(_)) ==
    SumSeq([k \in 1..Len(Matches) |-> IF k \in CountedBy(id) THEN F(Matches[k]) ELSE 0])

\* C13: for every team, the runs and overs credited as scored and faced are
\* those of its own innings in the matches that count (t1 figures in seat 1,
\* t2 figures in seat 2), and the runs and overs credited as conceded and
\* bowled are those of the opponent's innings.
C13_OwnAndOpponentInnings ==
    Mounted =>
        \A id \in TeamIdSet :
            NrrTotals(Ledger(id)) =
                <<TotalOver(id, LAMBDA m : OwnInnings(m, id).runs),
                  TotalOver(id, LAMBDA m : OversOfInnings(OwnInnings(m, id))),
                  TotalOver(id, LAMBDA m : OppInnings(m, id).runs),
                  TotalOver(id, LAMBDA m : OversOfInnings(OppInnings(m, id)))>>

\* the rows of the two teams of a tournament whose only match is COMPLETED,
\* decisive and fully scored
SingleDecisiveMatch ==
    /\ Len(Matches) = 1
    /\ Matches[1].status = "COMPLETED"
    /\ Matches[1].resultType \in {"T1_WIN", "T2_WIN"}
    /\ Matches[1].t1Runs # None /\ Matches[1].t1Wickets # None /\ Matches[1].t1Overs # None
    /\ Matches[1].t2Runs # None /\ Matches[1].t2Wickets # None /\ Matches[1].t2Overs # None

RowOf(rows, id) == rows[CHOOSE i \in 1..Len(rows) : rows[i].id = id]

\* the tournament with the figures of the two sides of every match exchanged
SidesSwapped ==
    [tournament EXCEPT !.matches =
        [k \in 1..Len(@) |->
            [@[k] EXCEPT !.t1Runs = Matches[k].t2Runs, !.t1Wickets = Matches[k].t2Wickets,
                         !.t1Overs = Matches[k].t2Overs,
                         !.t2Runs = Matches[k].t1Runs, !.t2Wickets = Matches[k].t1Wickets,
                         !.t2Overs = Matches[k].t1Overs]]]

\* x = -y on fractions
Opposite(x, y) == x.num * y.den = -(y.num * x.den)

\* x = y on fractions
SameRate(x, y) == x.num * y.den = y.num * x.den

\* C14: when two teams have played one COMPLETED, decisive, fully scored
\* match against each other and nothing else, their NRR values are opposite,
\* and exchanging the figures of the two sides exchanges the two NRR values.
C14_NrrSymmetry ==
    (Mounted /\ SingleDecisiveMatch) =>
        LET a == Matches[1].team1Id
            b == Matches[1].team2Id
            swapped == standings(SidesSwapped)
        IN  /\ Opposite(RowOf(table, a).nrr, RowOf(table, b).nrr)
            /\ SameRate(RowOf(swapped, a).nrr, RowOf(table, b).nrr)
            /\ SameRate(RowOf(swapped, b).nrr, RowOf(table, a).nrr)

\* the configured overs-per-match limit, in balls
OversLimit ==
    CASE Config.oversPerMatch = "20" -> 120
      [] Config.oversPerMatch = "2" -> 12

\* the tournament without its k-th match
WithoutMatch(k) ==
    [tournament EXCEPT !.matches =
        SubSeq(@, 1, k - 1) \o SubSeq(@, k + 1, Len(@))]

\* what the k-th match adds to the overs faced and to the overs bowled of a team
FacedIn(k, id) ==
    Ledger(id).totalTrueOversFaced
        - LedgerOf(WithoutMatch(k), TeamOf(id)).totalTrueOversFaced

BowledIn(k, id) ==
    Ledger(id).totalTrueOversBowled
        - LedgerOf(WithoutMatch(k), TeamOf(id)).totalTrueOversBowled

\* C15: when an innings of a match that counts ended with 10 wickets, the
\* overs credited for it are the configured overs-per-match limit, whatever
\* overs were recorded: as overs faced in the ledger of the batting team and
\* as overs bowled in the ledger of its opponent.
C15_AllOutCreditsLimit ==
    Mounted =>
        \A k \in 1..Len(Matches) :
            LET m == Matches[k]
            IN  Counts(m) =>
                    /\ m.t1Wickets = Some(10) =>
                          /\ FacedIn(k, m.team1Id) = OversLimit
                          /\ BowledIn(k, m.team2Id) = OversLimit
                    /\ m.t2Wickets = Some(10) =>
                          /\ FacedIn(k, m.team2Id) = OversLimit
                          /\ BowledIn(k, m.team1Id) = OversLimit

C15_Witness ==
    /\ Mounted
    /\ Config = AltConfig
    /\ Len(Matches) = 2
    /\ Counts(Matches[1]) /\ Matches[1].t1Wickets = Some(10) /\ Matches[1].t1Overs = Some(5)
    /\ Counts(Matches[2]) /\ Matches[2].t2Wickets = Some(10) /\ Matches[2].t2Overs = Some(4)
    /\ Matches[1].team1Id = "team-0" /\ Matches[2].team1Id = "team-0"
    /\ Ledger("team-0").totalTrueOversFaced = 12 + 6
    /\ Ledger("team-1").totalTrueOversBowled = 12 + 6

\* the overs figures recorded in the matches, in tenths
RecordedOvers ==
    {OrZero(Matches[k].t1Overs) : k \in 1..Len(Matches)}
        \cup {OrZero(Matches[k].t2Overs) : k \in 1..Len(Matches)}

\* i + min(d, 6)/6 overs, in balls, for the figure i.d given in tenths
BallsOf(o) ==
    LET i == o \div 10
        d == o % 10
    IN  6 * i + (IF d <= 6 THEN d ELSE 6)

\* C16: for an overs figure i.d the true overs are i + min(d, 6)/6, that is
\* 6*i + min(d, 6) balls: 19.4 gives 19 + 4/6, 20.0 gives 20, 0.6 gives 1,
\* i.6 equals (i+1).0, and the result never decreases when the figure grows.
\* The figures are those recorded in the matches, and the overs credited to
\* the seat-1 team of a single match without an all-out innings are these.
C16_TrueOvers ==
    Mounted =>
        /\ \A o \in RecordedOvers :
              /\ toTrueOvers(o) = BallsOf(o)
              /\ o = 194 => toTrueOvers(o) = 6 * 19 + 4
              /\ o = 200 => toTrueOvers(o) = 6 * 20
              /\ o = 6 => toTrueOvers(o) = 6 * 1
              /\ o % 10 = 6 => toTrueOvers(o) = toTrueOvers(o + 4)
              /\ \A p \in RecordedOvers : o <= p => toTrueOvers(o) <= toTrueOvers(p)
        /\ (/\ SingleDecisiveMatch
            /\ Matches[1].t1Wickets # Some(10)
            /\ Matches[1].t2Wickets # Some(10)) =>
              /\ Ledger(Matches[1].team1Id).totalTrueOversFaced = BallsOf(Matches[1].t1Overs[1])
              /\ Ledger(Matches[1].team1Id).totalTrueOversBowled = BallsOf(Matches[1].t2Overs[1])
              /\ Ledger(Matches[1].team2Id).totalTrueOversBowled = BallsOf(Matches[1].t1Overs[1])

C16_Witness ==
    /\ Mounted
    /\ Len(Matches) = 1
    /\ Matches[1].t1Overs = Some(194)
    /\ Matches[1].t2Overs = Some(9)
    /\ Matches[1].team1Id = "team-0"
    /\ Ledger("team-0").totalTrueOversFaced = 118
    /\ Ledger("team-0").totalTrueOversBowled = 6

----------------------------------------------------------------------------
(* Properties of the ranking *)

\* x > y on fractions with positive denominators
HigherRate(x, y) == x.num * y.den > y.num * x.den

\* name a precedes or equals name b in ascending order
NamePrecedes(a, b) == NameRank(a) <= NameRank(b)

TeamsReversed ==
    [tournament EXCEPT !.teams = [i \in 1..Len(@) |-> @[Len(@) + 1 - i]]]

\* C19: in every state reached by creating a tournament and editing its teams
\* the ranking is a strict total order: no two distinct rows compare as equal
\* under the comparator (team names are pairwise distinct), so the standings
\* do not depend on the order of the team list.
C19_StrictTotalOrder ==
    Mounted =>
        /\ \A i \in 1..Len(table), j \in 1..Len(table) :
              i # j => CompareStandings(table[i], table[j]) # 0
        /\ \A i \in 1..N, j \in 1..N : i # j => Teams[i].name # Teams[j].name
        /\ table = standings(TeamsReversed)

----------------------------------------------------------------------------
(* Properties of the recent form *)

\* the result code of the k-th match for the team
CodeAt(k, id) ==
    IF k \in Won(id) THEN "W"
    ELSE IF k \in Tied(id) THEN "T"
    ELSE IF k \in Unfinished(id) THEN "NR"
    ELSE "L"

\* the position of the i-th most recent COMPLETED match of the team
NthLast(id, i) ==
    CHOOSE k \in Played(id) : Cardinality({l \in Played(id) : l > k}) = i - 1

\* C20: the recent form of a team has min(5, matches played) entries, the
\* result codes of its last COMPLETED matches in match-list order with the
\* most recent first; the sixth most recent and older matches are left out.
C20_RecentForm ==
    Mounted =>
        \A r \in 1..Len(table) :
            LET row == table[r]
                id == row.id
            IN  /\ Len(row.form) = Min(5, Cardinality(Played(id)))
                /\ Len(row.form) = Min(5, row.mp)
                /\ \A i \in 1..Len(row.form) : row.form[i] = CodeAt(NthLast(id, i), id)

C20_Witness ==
    /\ Mounted
    /\ Len(Matches) = 6
    /\ Matches[1].resultType = "TIE"
    /\ RowOf(table, "team-1").mp = 6
    /\ RowOf(table, "team-1").form = <<"NR", "L", "L", "L", "L">>
    /\ RowOf(table, "team-0").form = <<"NR", "W", "W", "W", "W">>

----------------------------------------------------------------------------
(* Properties of the match lifecycle and of result entry *)

\* C21: in every state reached by generating, regenerating and saving
\* results, a match has a result outcome exactly when its status is
\* COMPLETED: no COMPLETED match lacks a result and no NOT_STARTED match
\* carries one.
C21_ResultIffCompleted ==
    \A k \in 1..Len(Matches) :
        /\ (Matches[k].resultType # "undefined") <=> (Matches[k].status = "COMPLETED")
        /\ Matches[k].status = "COMPLETED" =>
              Matches[k].resultType \in ResultTypes
        /\ Matches[k].status = "NOT_STARTED" => Matches[k].resultType = "undefined"

C21_Witness ==
    /\ Len(Matches) = 3
    /\ \E k \in 1..3, l \in 1..3 :
          /\ Matches[k].status = "COMPLETED" /\ Matches[k].resultType = "ABANDONED"
          /\ Matches[l].status = "NOT_STARTED" /\ Matches[l].resultType = "undefined"

\* positions of the matches saveMatchResult targets
Targeted == {k \in 1..Len(Matches) : confirmingAction.matchId = Some(Matches[k].id)}

\* C22: saveMatchResult never deletes, adds or reorders matches: the list
\* keeps its length and its ids in place, every match but the targeted one is
\* unchanged, the targeted match keeps id, round, team1Id, team2Id and
\* venueId; teams, penalties and config are unchanged, and with no match
\* targeted nothing changes at all.
C22_SaveFrame ==
    [][/\ Len(tournament'.matches) = Len(Matches)
       /\ \A k \in 1..Len(Matches) :
             /\ tournament'.matches[k].id = Matches[k].id
             /\ tournament'.matches[k].round = Matches[k].round
             /\ tournament'.matches[k].team1Id = Matches[k].team1Id
             /\ tournament'.matches[k].team2Id = Matches[k].team2Id
             /\ tournament'.matches[k].venueId = Matches[k].venueId
             /\ k \notin Targeted => tournament'.matches[k] = Matches[k]
       /\ tournament'.teams = tournament.teams
       /\ tournament'.penalties = tournament.penalties
       /\ tournament'.config = tournament.config
       /\ tournament'.name = tournament.name
       /\ tournament'.stadiums = tournament.stadiums
       /\ Targeted = {} => UNCHANGED vars]_vars

C22_Witness ==
    /\ Len(Matches) = 2
    /\ confirmingAction = NoAction
    /\ Matches[1].status = "COMPLETED" /\ Matches[1].notes = None
    /\ Matches[1].team1Id = "team-1"
    /\ Matches[2].status = "COMPLETED" /\ Matches[2].notes = Some("")
    /\ Matches[2].team1Id = "team-1" /\ Matches[2].id = <<1, 2, 1>>
    /\ Matches[2].resultType = "T2_WIN"

\* C29: the result saveMatchResult records follows from the abandoned flag
\* and the two run totals of the form alone: ABANDONED when the flag is set,
\* otherwise T1_WIN, T2_WIN or TIE by the comparison of the runs (equal runs,
\* 0-0 included, give TIE); it is never NO_RESULT or DRAW, and the status
\* written is always COMPLETED.
C29_ResultFromFlagAndRuns ==
    [][\A k \in Targeted :
          /\ tournament'.matches[k].status = "COMPLETED"
          /\ tournament'.matches[k].resultType \notin {"NO_RESULT", "DRAW", "undefined"}
          /\ loForm.isAbandoned => tournament'.matches[k].resultType = "ABANDONED"
          /\ (~loForm.isAbandoned /\ loForm.t1Runs > loForm.t2Runs) =>
                tournament'.matches[k].resultType = "T1_WIN"
          /\ (~loForm.isAbandoned /\ loForm.t2Runs > loForm.t1Runs) =>
                tournament'.matches[k].resultType = "T2_WIN"
          /\ (~loForm.isAbandoned /\ loForm.t1Runs = loForm.t2Runs) =>
                tournament'.matches[k].resultType = "TIE"]_vars

C29_Witness ==
    /\ Len(Matches) = 2
    /\ confirmingAction = NoAction
    /\ Matches[1].status = "NOT_STARTED"
    /\ Matches[2].status = "COMPLETED" /\ Matches[2].notes = Some("")
    /\ Matches[2].resultType = "TIE"
    /\ Matches[2].t1Runs = Some(0) /\ Matches[2].t2Runs = Some(0)
    /\ Matches[2].t1Wickets = Some(10) /\ Matches[2].isDlsApplied = Some(TRUE)

\* ids of a match list, in order
IdsOf(matches) == [k \in 1..Len(matches) |-> matches[k].id]

\* a step that announces a generated schedule or changes the ids of the list
Regenerates ==
    \/ alertMsg' = ScheduleGenerated
    \/ IdsOf(tournament'.matches) # IdsOf(Matches)

\* C23: a non-empty match list is replaced by generation only through
\* handleRegenerateSchedule with the typed text equal to the tournament name;
\* a mismatch leaves matches and results unchanged; the unguarded generation
\* entry points act only while the match list is empty.
C23_GuardedRegeneration ==
    [][/\ (Len(Matches) > 0 /\ Regenerates) =>
             /\ confirmingAction = RegenerateAction
             /\ securityInput = tournament.name
       /\ (ClickAuthReset /\ securityInput # tournament.name) =>
             /\ tournament' = tournament
             /\ table' = table
             /\ alertMsg' = ValidationFailed
       /\ (Regenerates /\ confirmingAction # RegenerateAction) => Len(Matches) = 0]_vars

C23_Witness ==
    /\ confirmingAction = RegenerateAction
    /\ securityInput = "CUPS"
    /\ alertMsg = ValidationFailed
    /\ Len(Matches) = 3
    /\ CompletedCount(Matches) = 2

\* C26: oversPerMatch can be changed only before any match is scored: while
\* at least one match is COMPLETED no step changes config.oversPerMatch, and
\* it becomes editable again only after a regeneration has cleared the
\* results.
C26_OversLockedOnceScored ==
    [][/\ CompletedCount(Matches) > 0 =>
             tournament'.config.oversPerMatch = Config.oversPerMatch
       /\ (isLocked(Matches) /\ ~isLocked(tournament'.matches)) =>
             /\ ClickAuthReset
             /\ securityInput = tournament.name
             /\ alertMsg' = ScheduleGenerated
       /\ tournament'.config.oversPerMatch # Config.oversPerMatch =>
             \A k \in 1..Len(Matches) : Matches[k].status = "NOT_STARTED"]_vars

\* the overs limit was edited and then a match was scored: the input is locked
C26_Witness ==
    /\ Config.oversPerMatch = "2"
    /\ Len(Matches) = 1
    /\ Matches[1].status = "COMPLETED"
    /\ isLocked(Matches)
    /\ confirmingAction = NoAction

\* C27: after a successful handleRegenerateSchedule every match is
\* NOT_STARTED with no result and no scores, and every team's standing shows
\* 0 played, 0 points and an NRR of 0.
C27_ResetClearsResults ==
    [][(ClickAuthReset /\ securityInput = tournament.name /\ ~TooFewTeams(Teams)) =>
          /\ Len(tournament'.matches) > 0
          /\ \A k \in 1..Len(tournament'.matches) :
                LET m == tournament'.matches[k]
                IN  /\ m.status = "NOT_STARTED"
                    /\ m.resultType = "undefined"
                    /\ m.t1Runs = None /\ m.t1Wickets = None /\ m.t1Overs = None
                    /\ m.t2Runs = None /\ m.t2Wickets = None /\ m.t2Overs = None
          /\ Len(table') = N
          /\ \A i \in 1..Len(table') :
                /\ table'[i].mp = 0
                /\ table'[i].pts = 0
                /\ table'[i].nrr.num = 0
                /\ table'[i].mw = 0 /\ table'[i].ml = 0]_vars

\* a reset just succeeded after a scorecard with runs and overs was filled
C27_Witness ==
    /\ alertMsg = ScheduleGenerated
    /\ confirmingAction = NoAction
    /\ securityInput = ""
    /\ loForm.t1Runs = 1 /\ loForm.t1Overs = 10 /\ loForm.t2Overs = 10
    /\ Len(Matches) = 1
    /\ Matches[1].status = "NOT_STARTED"
    /\ \A i \in 1..Len(table) : table[i].mp = 0 /\ table[i].nrr.num = 0

\* a match as it was before any result was saved into it
NeverScored(m) ==
    [m EXCEPT !.status = "NOT_STARTED", !.resultType = "undefined",
              !.t1Runs = None, !.t1Wickets = None, !.t1Overs = None,
              !.t2Runs = None, !.t2Wickets = None, !.t2Overs = None,
              !.notes = None, !.isDlsApplied = None]

\* the COMPLETED matches of a list in which a team is seated
CompletedWith(matches, id) ==
    {j \in 1..Len(matches) :
        /\ matches[j].status = "COMPLETED"
        /\ matches[j].team1Id = id \/ matches[j].team2Id = id}

\* C24: the standings depend only on the current snapshot of the matches:
\* saving a result into a match, COMPLETED before or not, replaces whatever
\* the match contributed, so the standings equal those of the last saved
\* result applied to a never-scored match, and each match counts at most
\* once in a team's played total.
C24_LastResultOnly ==
    [][\A k \in Targeted :
          LET last == [tournament EXCEPT
                          !.matches[k] = UpdatedMatch(NeverScored(Matches[k]), loForm)]
          IN  /\ table' = standings(tournament')
              /\ table' = standings(last)
              /\ \A i \in 1..Len(table') :
                    /\ table'[i].mp =
                          Cardinality(CompletedWith(tournament'.matches, table'[i].id))
                    /\ table'[i].mp <= Len(Matches)]_vars

\* a result with overs was saved into the second match, which is now a win
\* of its second seat; the first match is still the stored win
C24_Witness ==
    /\ Len(Matches) = 2
    /\ confirmingAction = NoAction
    /\ Matches[1].status = "COMPLETED" /\ Matches[1].resultType = "T1_WIN"
    /\ Matches[1].notes = None
    /\ Matches[2].status = "COMPLETED" /\ Matches[2].resultType = "T2_WIN"
    /\ Matches[2].notes = Some("")
    /\ Matches[2].t1Overs = Some(10) /\ Matches[2].t2Overs = Some(5)
    /\ \A i \in 1..Len(table) : table[i].mp = 2

\* a reset whose typed text equals the tournament name and that has teams
\* enough to generate
SuccessfulReset ==
    /\ ClickAuthReset
    /\ securityInput = tournament.name
    /\ ~TooFewTeams(Teams)

\* C30: between regenerations the lifecycle of a match is monotone: the only
\* change of status is NOT_STARTED to COMPLETED, IN_PROGRESS is never
\* reached, a COMPLETED match stays COMPLETED, and CompletedCount never
\* decreases except by a successful regeneration, which resets it to 0.
C30_MonotoneLifecycle ==
    [][/\ \A k \in 1..Len(tournament'.matches) :
             tournament'.matches[k].status \in {"NOT_STARTED", "COMPLETED"}
       /\ ~SuccessfulReset /\ Len(Matches) > 0 =>
             /\ Len(tournament'.matches) = Len(Matches)
             /\ \A k \in 1..Len(Matches) :
                   \/ tournament'.matches[k].status = Matches[k].status
                   \/ /\ Matches[k].status = "NOT_STARTED"
                      /\ tournament'.matches[k].status = "COMPLETED"
             /\ CompletedCount(tournament'.matches) >= CompletedCount(Matches)
       /\ CompletedCount(tournament'.matches) < CompletedCount(Matches) => SuccessfulReset
       /\ SuccessfulReset => CompletedCount(tournament'.matches) = 0]_vars

\* two matches are completed; one of them was opened again and its form
\* changed and discarded: it is still COMPLETED with its result
C30_Witness ==
    /\ Len(Matches) = 3
    /\ CompletedCount(Matches) = 2
    /\ tournament.status = "ONGOING"
    /\ confirmingAction = NoAction
    /\ \E k \in 1..3 :
          /\ Matches[k].status = "COMPLETED"
          /\ Matches[k].resultType = "T1_WIN"
          /\ loForm.isAbandoned

\* positions of the COMPLETED matches
CompletedMatches == {k \in 1..Len(Matches) : Matches[k].status = "COMPLETED"}

\* positions of the COMPLETED matches one side won
DecisiveMatches == {k \in CompletedMatches : Matches[k].resultType \in {"T1_WIN", "T2_WIN"}}

\* every COMPLETED match has one of the five handled results and seats two
\* teams of the team list
WellFormedResults ==
    \A k \in CompletedMatches :
        /\ Matches[k].resultType \in {"T1_WIN", "T2_WIN", "TIE", "NO_RESULT", "ABANDONED"}
        /\ Matches[k].team1Id \in TeamIdSet
        /\ Matches[k].team2Id \in TeamIdSet

\* the sum of one column of the standings
ColumnSum(rows, F(_)) == SumSeq([i \in 1..Len(rows) |-> F(rows[i])])

WinsOf(row) == row.mw
LossesOf(row) == row.ml
PlayedOf(row) == row.mp

\* C28: conservation over the standings: where every COMPLETED match has a
\* result among T1_WIN, T2_WIN, TIE, NO_RESULT and ABANDONED and seats two
\* teams of the list, the wins and the losses of all teams both sum to the
\* number of decisive COMPLETED matches, the played totals sum to twice the
\* number of COMPLETED matches, and each team's played equals its won + lost
\* + tied + no-result.
C28_Conservation ==
    (Mounted /\ WellFormedResults) =>
        /\ ColumnSum(table, WinsOf) = Cardinality(DecisiveMatches)
        /\ ColumnSum(table, LossesOf) = Cardinality(DecisiveMatches)
        /\ ColumnSum(table, PlayedOf) = 2 * Cardinality(CompletedMatches)
        /\ \A i \in 1..Len(table) :
              table[i].mp = table[i].mw + table[i].ml + table[i].mt + table[i].nr

C28_Witness ==
    /\ Mounted
    /\ WellFormedResults
    /\ N = 3
    /\ Len(Matches) = 2
    /\ Matches[1].status = "COMPLETED" /\ Matches[1].resultType = "T2_WIN"
    /\ Matches[1].team1Id = "team-1" /\ Matches[1].team2Id = "team-0"
    /\ Matches[2].status = "COMPLETED" /\ Matches[2].resultType = "NO_RESULT"
    /\ Matches[2].team1Id = "team-1" /\ Matches[2].team2Id = "team-2"
    /\ ColumnSum(table, WinsOf) = 1
    /\ ColumnSum(table, PlayedOf) = 4

\* an innings of the match ended all out
HasAllOut(m) == m.t1Wickets = Some(10) \/ m.t2Wickets = Some(10)

\* the tournament without its COMPLETED matches that have an all-out innings
WithoutAllOut ==
    [tournament EXCEPT !.matches =
        SelectSeq(@, LAMBDA m : ~(m.status = "COMPLETED" /\ HasAllOut(m)))]

\* C25: when the overs-per-match limit is unset, unparsable or zero, a
\* COMPLETED match with an all-out innings contributes nothing to NRR:
\* neither its runs nor its overs are added to the accumulators of either
\* team, so the NRR of both teams is that of the tournament without the
\* match.
C25_AllOutIgnoredWithoutLimit ==
    (Mounted /\ MaxO(Config) = 0) =>
        \A i \in 1..Len(table) :
            LET rest == LedgerOf(WithoutAllOut, TeamOf(table[i].id))
            IN  /\ NrrTotals(Ledger(table[i].id)) = NrrTotals(rest)
                /\ SameRate(table[i].nrr, Nrr(rest))

====
